---- MODULE Spec2Model ----
(***************************************************************************)
(* Model of the encrypted password vault of QrsTweaks                      *)
(* (src/src/qrs/modules/passwords/vault.py): the Vault object, the         *)
(* container file at Vault.path, and the environment around them (other    *)
(* Vault instances over the same path, tampering with the file, deletion   *)
(* of the file, a process death during save).                              *)
(*                                                                         *)
(* Cryptography is modelled symbolically: a derived key is the pair        *)
(* (password, salt) it was derived from, a ciphertext is the term          *)
(* (key, nonce, plaintext, damage), and AES-GCM decryption succeeds only   *)
(* on an undamaged ciphertext under the key and nonce it was made with.    *)
(***************************************************************************)
EXTENDS Naturals, Sequences, FiniteSets, TLC

(* ------------------------------ bounds -------------------------------- *)

\* Longest entry list the model lets add_entry build.
MaxEntries == 2

(* --------------------------- input domains ---------------------------- *)

Passwords == {"p1", "p2"}

\* Values os.urandom(16) / os.urandom(12) may return.
Salts == {"s1", "s2"}

Nonces == {"n1", "n2"}

\* Titles the caller passes to add_entry; "" is the empty title.
Titles == {"", "t1", "t2"}

Usernames == {"u"}

EntryPasswords == {"x"}

\* Outcomes of an attempted file write: it succeeds, open() fails, or the
\* write fails after open() has truncated the file.
WriteIO == {"ok", "open_fail", "write_fail"}

\* Outcomes of an attempted file read.
ReadIO == {"ok", "fail"}

(* ------------------------------ values -------------------------------- *)

\* Python None, for Vault._key and Vault._header.
None == [kind |-> "None"]

\* The path does not exist.
Absent == [kind |-> "absent"]

\* File content json.loads rejects (also: an empty or partly written file).
NotJson == [kind |-> "notjson"]

\* An envelope field that is not there.
Missing == [kind |-> "missing"]

\* An envelope field whose text base64.b64decode rejects (incorrect padding).
BadPad == [kind |-> "badpad"]

\* dict built by add_entry
Entry(title, username, password) ==
    [title |-> title, username |-> username, password |-> password]

\* _Header dataclass
Header(salt, nonce) == [kind |-> "_Header", kdf_salt |-> salt, nonce |-> nonce]

(* ---------------------- codecs and crypto primitives ------------------ *)

\* base64.b64encode(b).decode("ascii")
b64encode(b) == [kind |-> "b64", data |-> b]

\* base64.b64decode(meta[field]): the bytes, or the exception it raises.
b64decode(field) ==
    CASE field.kind = "b64"     -> [out |-> "ok", data |-> field.data]
      [] field.kind = "missing" -> [out |-> "KeyError"]
      [] field.kind = "badpad"  -> [out |-> "binascii.Error"]

\* json.dumps(self._entries, ensure_ascii=False).encode("utf-8")
json_dumps(ents) == [json |-> ents]

\* json.loads(plaintext.decode("utf-8"))
json_loads(data) == data.json

\* Vault._derive_key: scrypt is a deterministic function of (password, salt).
derive_key(password, salt) == [kind |-> "key", pw |-> password, salt |-> salt]

\* AESGCM(key).encrypt(nonce, plaintext, None)
aes_encrypt(k, nonce, plaintext) ==
    [k |-> k, n |-> nonce, pt |-> plaintext, dmg |-> "none"]

\* AESGCM(key).decrypt(nonce, ciphertext, None): the plaintext, or InvalidTag.
aes_decrypt(k, nonce, ct) ==
    IF ct.k = k /\ ct.n = nonce /\ ct.dmg = "none"
    THEN [out |-> "ok", data |-> ct.pt]
    ELSE [out |-> "InvalidTag"]

\* Vault._encrypt
Encrypt(hdr, k, plaintext) == aes_encrypt(k, hdr.nonce, plaintext)

\* Mutant of Decrypt: a cipher without authentication (the tag is not
\* verified), so an altered ciphertext still decrypts.
DecryptNoIntegrity(hdr, k, ct) ==
    IF ct.k = k /\ ct.n = hdr.nonce
    THEN [out |-> "ok", data |-> ct.pt]
    ELSE [out |-> "InvalidTag"]

\* Vault._decrypt
Decrypt(hdr, k, ct) == aes_decrypt(k, hdr.nonce, ct)

\* The meta dict save() writes as JSON.
Envelope(hdr, ct) ==
    [kind |-> "envelope", kdf |-> "scrypt", kdf_salt |-> b64encode(hdr.kdf_salt),
     nonce |-> b64encode(hdr.nonce), cipher |-> "AESGCM",
     ciphertext |-> b64encode(ct), version |-> 1]

(* ------------------------------- state -------------------------------- *)

VARIABLES
    file,       \* content of the container file at Vault.path
    is_open,    \* Vault.is_open
    key,        \* Vault._key
    entries,    \* Vault._entries
    header,     \* Vault._header
    last,       \* history: the last call, its outcome and the state before it
    trip        \* history: progress of a create / add / save / reopen script

vars == <<file, is_open, key, entries, header, last, trip>>

\* State of the background daemon (QrsDaemon, src/qrs/service/daemon.py).
VARIABLES
    daemon_pc,      \* where the thread inside run_forever is
    running,        \* QrsDaemon._running
    loop_counter,   \* QrsDaemon._loop_counter
    seen_games,     \* QrsDaemon._seen_games: label -> pid (NoPid: no key)
    label_idx,      \* position of the for loop of _handle_game_detection
    found,          \* history: what this poll's PID lookups returned so far
    stop_called,    \* history: stop() has been called
    begun_after,    \* history: iterations begun after stop() was called
    poll_last       \* history: the last label handled and what was done

daemonVars == <<daemon_pc, running, loop_counter, seen_games, label_idx, found,
                stop_called, begun_after, poll_last>>

\* State of the daemon controller (ServiceController,
\* src/qrs/service/controller.py) and of the Service page.
VARIABLES
    pid_file,       \* content of .runtime/daemon.pid (NoFile: no such file)
    alive,          \* PIDs of the daemon processes that are running
    next_pid,       \* the PID the next spawned process gets
    lbl_status,     \* text of ServicePage.lbl_status
    svc_last        \* history: the last call, its result, the state before it

serviceVars == <<pid_file, alive, next_pid, lbl_status, svc_last>>

\* State of the log manager (LogManager, src/qrs/core/log_manager.py) and of
\* the threads calling it.
VARIABLES
    lock,           \* LogManager._lock: Free or the thread that holds it
    subscribers,    \* LogManager._subscribers
    jsonl,          \* the entries written to the JSONL file, in file order
    threads,        \* per thread, the stack of its calls into the LogManager
    inbox,          \* history: per callback, the entries it was called with
    next_entry,     \* the next entry to be logged
    log_last        \* history: the last step and, for a log() that returned,
                    \* what it delivered

logVars == <<lock, subscribers, jsonl, threads, inbox, next_entry, log_last>>

\* Everything but the vault.
nonVault == <<daemonVars, serviceVars, logVars>>

\* Everything but the daemon.
nonDaemon == <<vars, serviceVars, logVars>>

\* Everything but the controller and the Service page.
nonService == <<vars, daemonVars, logVars>>

\* Everything but the log manager.
nonLog == <<vars, daemonVars, serviceVars>>

\* What a call finds: the container file and the Vault's fields.
Snapshot(f, open, k, ents, hdr) ==
    [file |-> f, is_open |-> open, key |-> k, entries |-> ents, header |-> hdr]

\* The record of a call: operation, arguments, outcome, results, and the
\* state the call started from.
CallFrom(op, out, pre) ==
    [op |-> op, out |-> out, msg |-> "", pw |-> "", title |-> "",
     username |-> "", password |-> "", io |-> "ok",
     created |-> FALSE, listed |-> <<>>, count |-> 0, csv |-> <<>>, pre |-> pre]

Call(op, out) == CallFrom(op, out, Snapshot(file, is_open, key, entries, header))

\* The state Vault.__init__ leaves (lines 30-33), as a snapshot test.
Fresh(st) ==
    ~st.is_open /\ st.key = None /\ st.header = None /\ st.entries = <<>>

\* No script is being followed.
NoTrip == [phase |-> "none", pw |-> "", L |-> <<>>]

(* ----------------------------- operations ---------------------------- *)

\* Mutant of SaveResult: every save writes a salt other than the header's.
SaveResultNewSalt(open, hdr, k, ents, f, io) ==
    IF ~open \/ hdr = None
    THEN [out |-> "VaultError", msg |-> "Vault not open.", file |-> f,
          encrypted |-> FALSE, io |-> "ok"]
    ELSE LET other == [hdr EXCEPT
                         !.kdf_salt = CHOOSE x \in Salts : x # hdr.kdf_salt]
             ct    == Encrypt(hdr, k, json_dumps(ents))
         IN  CASE io = "ok" ->
                    [out |-> "ok", msg |-> "", file |-> Envelope(other, ct),
                     encrypted |-> TRUE, io |-> io]
               [] io = "open_fail" ->
                    [out |-> "OSError", msg |-> "", file |-> f,
                     encrypted |-> TRUE, io |-> io]
               [] io = "write_fail" ->
                    [out |-> "OSError", msg |-> "", file |-> NotJson,
                     encrypted |-> TRUE, io |-> io]

\* Vault.save (lines 70-83) from vault state (open, hdr, k, ents) and file f:
\* the outcome, the file afterwards, and whether _encrypt ran.
SaveResult(open, hdr, k, ents, f, io) ==
    IF ~open \/ hdr = None
    THEN [out |-> "VaultError", msg |-> "Vault not open.", file |-> f,
          encrypted |-> FALSE, io |-> "ok"]
    ELSE LET data == json_dumps(ents)
             ct   == Encrypt(hdr, k, data)
         IN  CASE io = "ok" ->
                    [out |-> "ok", msg |-> "", file |-> Envelope(hdr, ct),
                     encrypted |-> TRUE, io |-> io]
               [] io = "open_fail" ->
                    [out |-> "OSError", msg |-> "", file |-> f,
                     encrypted |-> TRUE, io |-> io]
               [] io = "write_fail" ->
                    [out |-> "OSError", msg |-> "", file |-> NotJson,
                     encrypted |-> TRUE, io |-> io]

\* unlock_or_create, the branch taken when path does not exist (lines 38-42,
\* then 55-56 if save() returned).
CreateNew(password, salt, nonce, io) ==
    LET hdr == Header(salt, nonce)
        k   == derive_key(password, salt)
        s   == SaveResult(is_open, hdr, k, <<>>, file, io)
    IN  [out |-> s.out, msg |-> s.msg, key |-> k, header |-> hdr,
         entries |-> <<>>,
         is_open |-> IF s.out = "ok" THEN TRUE ELSE is_open,
         file |-> s.file, encrypted |-> s.encrypted, io |-> s.io]

\* Mutant of OpenExisting: is_open is set before the decrypt attempt instead
\* of after it, so a refused password still leaves the vault open.
OpenExistingOpensEarly(password, io) ==
    LET keep == [out |-> "ok", msg |-> "", key |-> key, header |-> header,
                 entries |-> entries, is_open |-> is_open]
        refused == "Unable to unlock vault (wrong password or corrupted file)."
    IN
    IF io = "fail" THEN [keep EXCEPT !.out = "OSError"]
    ELSE IF file.kind # "envelope" THEN [keep EXCEPT !.out = "JSONDecodeError"]
    ELSE
    LET salt == b64decode(file.kdf_salt) IN
    IF salt.out # "ok" THEN [keep EXCEPT !.out = salt.out]
    ELSE
    LET nonce == b64decode(file.nonce) IN
    IF nonce.out # "ok" THEN [keep EXCEPT !.out = nonce.out]
    ELSE
    LET hdr   == Header(salt.data, nonce.data)
        k     == derive_key(password, salt.data)
        ct    == b64decode(file.ciphertext)
        plain == IF ct.out = "ok" THEN Decrypt(hdr, k, ct.data) ELSE ct
    IN  IF plain.out # "ok"
        THEN [keep EXCEPT !.out = "VaultError", !.msg = refused, !.key = k,
                          !.header = hdr, !.is_open = TRUE]
        ELSE [out |-> "ok", msg |-> "", key |-> k, header |-> hdr,
              entries |-> json_loads(plain.data), is_open |-> TRUE]

\* unlock_or_create, the branch taken when path exists (lines 44-54, then
\* 55-56 if nothing was raised).
OpenExisting(password, io) ==
    LET keep == [out |-> "ok", msg |-> "", key |-> key, header |-> header,
                 entries |-> entries, is_open |-> is_open]
        refused == "Unable to unlock vault (wrong password or corrupted file)."
    IN
    IF io = "fail" THEN [keep EXCEPT !.out = "OSError"]
    ELSE IF file.kind # "envelope" THEN [keep EXCEPT !.out = "JSONDecodeError"]
    ELSE
    LET salt == b64decode(file.kdf_salt) IN
    IF salt.out # "ok" THEN [keep EXCEPT !.out = salt.out]
    ELSE
    LET nonce == b64decode(file.nonce) IN
    IF nonce.out # "ok" THEN [keep EXCEPT !.out = nonce.out]
    ELSE
    LET hdr   == Header(salt.data, nonce.data)
        k     == derive_key(password, salt.data)
        ct    == b64decode(file.ciphertext)
        plain == IF ct.out = "ok" THEN Decrypt(hdr, k, ct.data) ELSE ct
    IN  IF plain.out # "ok"
        THEN [keep EXCEPT !.out = "VaultError", !.msg = refused, !.key = k,
                          !.header = hdr]
        ELSE [out |-> "ok", msg |-> "", key |-> k, header |-> hdr,
              entries |-> json_loads(plain.data), is_open |-> TRUE]

\* Mutant of AddResult: the title check is missing.
AddResultNoTitleCheck(open, ents, title, username, password) ==
    IF ~open
    THEN [out |-> "VaultError", msg |-> "Vault is locked.", entries |-> ents]
    ELSE [out |-> "ok", msg |-> "",
          entries |-> Append(ents, Entry(title, username, password))]

\* Mutant of AddResult: the title is checked before the lock.
AddResultTitleFirst(open, ents, title, username, password) ==
    IF title = ""
    THEN [out |-> "VaultError", msg |-> "Title required.", entries |-> ents]
    ELSE IF ~open
    THEN [out |-> "VaultError", msg |-> "Vault is locked.", entries |-> ents]
    ELSE [out |-> "ok", msg |-> "",
          entries |-> Append(ents, Entry(title, username, password))]

\* Mutant of AddResult: the is_open check is missing.
AddResultUnguarded(open, ents, title, username, password) ==
    IF title = ""
    THEN [out |-> "VaultError", msg |-> "Title required.", entries |-> ents]
    ELSE [out |-> "ok", msg |-> "",
          entries |-> Append(ents, Entry(title, username, password))]

\* Vault.add_entry (lines 58-63): the outcome and the entry list afterwards.
AddResult(open, ents, title, username, password) ==
    IF ~open
    THEN [out |-> "VaultError", msg |-> "Vault is locked.", entries |-> ents]
    ELSE IF title = ""
    THEN [out |-> "VaultError", msg |-> "Title required.", entries |-> ents]
    ELSE [out |-> "ok", msg |-> "",
          entries |-> Append(ents, Entry(title, username, password))]

\* Vault.list_entries (lines 65-68)
ListResult(open, ents) == IF ~open THEN <<>> ELSE ents

\* Mutant of CsvRows: the username and password columns are swapped.
CsvRowsSwapped(ents) ==
    <<  <<"Title", "Username", "Password">>  >> \o
    [i \in 1..Len(ents) |-> <<ents[i].title, ents[i].password, ents[i].username>>]

\* csv.writer rows of export_csv (lines 91-93)
CsvRows(ents) ==
    <<  <<"Title", "Username", "Password">>  >> \o
    [i \in 1..Len(ents) |-> <<ents[i].title, ents[i].username, ents[i].password>>]

\* Vault.export_csv (lines 85-94): outcome, rows written, count returned.
ExportResult(open, ents, io) ==
    IF ~open
    THEN [out |-> "VaultError", msg |-> "Vault not open.", csv |-> <<>>,
          count |-> 0, io |-> "ok"]
    ELSE CASE io = "ok" ->
                [out |-> "ok", msg |-> "", csv |-> CsvRows(ents),
                 count |-> Len(ents), io |-> io]
           [] OTHER ->
                [out |-> "OSError", msg |-> "", csv |-> <<>>, count |-> 0,
                 io |-> io]

(* ------------------------------ actions ------------------------------- *)

\* Vault.__init__ (lines 28-33): a fresh Vault over the same path.
NewVault ==
    /\ key' = None
    /\ entries' = <<>>
    /\ is_open' = FALSE
    /\ header' = None
    /\ UNCHANGED nonVault
    /\ last' = Call("__init__", "ok")
    /\ trip' = IF trip.phase = "saved" THEN [trip EXCEPT !.phase = "fresh"]
                                       ELSE NoTrip
    /\ UNCHANGED file

\* Vault.unlock_or_create (lines 35-56)
unlock_or_create(password) ==
    \/ /\ file = Absent
       /\ \E salt \in Salts, nonce \in Nonces, io \in WriteIO :
            /\ LET r == CreateNew(password, salt, nonce, io)
               IN  /\ key' = r.key
                   /\ header' = r.header
                   /\ entries' = r.entries
                   /\ is_open' = r.is_open
                   /\ file' = r.file
                   /\ UNCHANGED nonVault
                   /\ last' = [Call("unlock_or_create", r.out) EXCEPT
                                 !.msg = r.msg, !.pw = password, !.io = r.io,
                                 !.created = (r.out = "ok")]
                   /\ trip' = IF Fresh(Snapshot(file, is_open, key, entries, header))
                              THEN [phase |-> "created", pw |-> password, L |-> <<>>]
                              ELSE NoTrip
    \/ /\ file # Absent
       /\ \E io \in ReadIO :
            LET r == OpenExisting(password, io)
            IN  /\ key' = r.key
                /\ header' = r.header
                /\ entries' = r.entries
                /\ is_open' = r.is_open
                /\ UNCHANGED nonVault
                /\ last' = [Call("unlock_or_create", r.out) EXCEPT
                              !.msg = r.msg, !.pw = password, !.io = io]
                /\ trip' = IF trip.phase = "fresh" /\ trip.pw = password /\ io = "ok"
                           THEN [trip EXCEPT !.phase = "reopened"]
                           ELSE NoTrip
                /\ UNCHANGED file

\* Mutant of add_entry: a successful add also writes the container, as if
\* add_entry ended with self.save().
add_entry_saving(title, username, password) ==
    /\ Len(entries) < MaxEntries
    /\ LET r == AddResult(is_open, entries, title, username, password)
       IN  /\ entries' = r.entries
           /\ file' = IF r.out = "ok"
                      THEN SaveResult(is_open, header, key, r.entries, file, "ok").file
                      ELSE file
           /\ UNCHANGED nonVault
           /\ last' = [Call("add_entry", r.out) EXCEPT
                         !.msg = r.msg, !.title = title,
                         !.username = username, !.password = password]
           /\ trip' = NoTrip
    /\ UNCHANGED <<is_open, key, header>>

\* Vault.add_entry (lines 58-63)
add_entry(title, username, password) ==
    /\ Len(entries) < MaxEntries
    /\ LET r == AddResult(is_open, entries, title, username, password)
       IN  /\ entries' = r.entries
           /\ UNCHANGED nonVault
           /\ last' = [Call("add_entry", r.out) EXCEPT
                         !.msg = r.msg, !.title = title,
                         !.username = username, !.password = password]
           /\ trip' = IF trip.phase = "created"
                      THEN IF r.out = "ok"
                           THEN [trip EXCEPT !.L = Append(@, Entry(title, username,
                                                                   password))]
                           ELSE trip
                      ELSE NoTrip
    /\ UNCHANGED <<file, is_open, key, header>>

\* Vault.list_entries (lines 65-68)
list_entries ==
    /\ UNCHANGED nonVault
    /\ last' = [Call("list_entries", "ok") EXCEPT
                  !.listed = ListResult(is_open, entries)]
    /\ UNCHANGED <<file, is_open, key, entries, header, trip>>

\* The caller of list_entries appends to the list it was just returned.
\* list(self._entries) (line 68) is a new list object, so Vault._entries is
\* not the list that grows.
caller_append(title, username, password) ==
    /\ last.op = "list_entries"
    /\ Len(last.listed) < MaxEntries
    /\ UNCHANGED nonVault
    /\ last' = [Call("caller_append", "ok") EXCEPT
                  !.listed = Append(last.listed, Entry(title, username, password))]
    /\ UNCHANGED <<file, is_open, key, entries, header, trip>>

\* The caller of list_entries removes the first item of the returned list.
caller_remove ==
    /\ last.op = "list_entries"
    /\ last.listed # <<>>
    /\ UNCHANGED nonVault
    /\ last' = [Call("caller_remove", "ok") EXCEPT !.listed = Tail(last.listed)]
    /\ UNCHANGED <<file, is_open, key, entries, header, trip>>

\* The caller of list_entries assigns the title of item i of the returned
\* list. list(self._entries) (line 68) copies the list but not the dicts in
\* it: item i of the returned list is the very dict at Vault._entries[i].
caller_modify_entry(i, title) ==
    /\ last.op = "list_entries"
    /\ i \in 1..Len(last.listed)
    /\ entries' = [entries EXCEPT ![i].title = title]
    /\ UNCHANGED nonVault
    /\ last' = [Call("caller_modify_entry", "ok") EXCEPT
                  !.title = title,
                  !.listed = [last.listed EXCEPT ![i].title = title]]
    /\ trip' = NoTrip
    /\ UNCHANGED <<file, is_open, key, header>>

\* Vault.save (lines 70-83)
save ==
    \E io \in WriteIO :
        LET r == SaveResult(is_open, header, key, entries, file, io)
        IN  /\ r.io = io
            /\ file' = r.file
            /\ UNCHANGED nonVault
            /\ last' = [Call("save", r.out) EXCEPT !.msg = r.msg, !.io = io]
            /\ trip' = IF trip.phase = "created" /\ io = "ok"
                       THEN [trip EXCEPT !.phase = "saved"]
                       ELSE NoTrip
            /\ UNCHANGED <<is_open, key, entries, header>>

\* Vault.export_csv (lines 85-94)
export_csv ==
    \E io \in WriteIO :
        LET r == ExportResult(is_open, entries, io)
        IN  /\ r.io = io
            /\ UNCHANGED nonVault
            /\ last' = [Call("export_csv", r.out) EXCEPT
                          !.msg = r.msg, !.io = io, !.csv = r.csv,
                          !.count = r.count]
            /\ UNCHANGED <<file, is_open, key, entries, header, trip>>

\* The process dies inside save(), between open() truncating the file and the
\* end of write_text (line 83); the next process builds a new Vault.
save_crash ==
    /\ is_open /\ header # None
    /\ \E point \in {"truncated", "written"} :
         file' = IF point = "written"
                 THEN Envelope(header, Encrypt(header, key, json_dumps(entries)))
                 ELSE NotJson
    /\ key' = None
    /\ entries' = <<>>
    /\ is_open' = FALSE
    /\ header' = None
    /\ UNCHANGED nonVault
    /\ last' = Call("save_crash", "crash")
    /\ trip' = NoTrip

\* Environment: bytes of the stored ciphertext are changed.
Tamper ==
    /\ file.kind = "envelope"
    /\ file.ciphertext.kind = "b64"
    /\ file.ciphertext.data.dmg = "none"
    /\ \E part \in {"body", "tag"} :
         file' = [file EXCEPT !.ciphertext.data.dmg = part]
    /\ UNCHANGED nonVault
    /\ last' = Call("tamper", "ok")
    /\ trip' = NoTrip
    /\ UNCHANGED <<is_open, key, entries, header>>

\* Environment: the container file is deleted.
ExternalDelete ==
    /\ file # Absent
    /\ file' = Absent
    /\ UNCHANGED nonVault
    /\ last' = Call("unlink", "ok")
    /\ trip' = NoTrip
    /\ UNCHANGED <<is_open, key, entries, header>>

(* ----------------------------- log manager ---------------------------- *)

\* Threads that call into the LogManager.
Threads == {1, 2}

\* Callbacks that get subscribed.
Callbacks == {"a", "b"}

\* Calls of log() the model follows; entry k is the one the k-th call builds.
MaxLogs == 2

\* threading.Lock: nobody holds it.
Free == 0

\* What a callback does when it is called with an entry.
Behaviours == {"returns", "raises", "log", "subscribe", "unsubscribe"}

\* Mutant of CanAcquire: no mutual exclusion.
CanAcquireAlways(l) == TRUE

\* threading.Lock is not reentrant: `with self._lock` (lines 59, 64, 101)
\* proceeds only when no thread holds the lock, the calling thread included.
CanAcquire(l) == l = Free

\* One call into the LogManager by a thread: the method, where the call is,
\* and the locals of log() (entry, loop position, dead list, whether the line
\* was written).
Frame(op, pc, entry, cb) ==
    [op |-> op, pc |-> pc, entry |-> entry, cb |-> cb, idx |-> 0,
     dead |-> <<>>, written |-> FALSE]

\* The range of a sequence.
Range(seq) == {seq[i] : i \in 1..Len(seq)}

\* list.remove / the `if cb in` test: seq without the elements of the set.
Without(seq, gone) == SelectSeq(seq, LAMBDA x : x \notin gone)

\* The last step was not the return of a log() call.
NoDelivery ==
    [op |-> "", thread |-> 0, entry |-> 0, subs |-> <<>>, dead |-> <<>>,
     written |-> FALSE]

\* LogManager.__init__ (lines 37-39); no thread is inside a call.
LogInit ==
    /\ lock = Free
    /\ subscribers = <<>>
    /\ jsonl = <<>>
    /\ threads = [t \in Threads |-> <<>>]
    /\ inbox = [cb \in Callbacks |-> <<>>]
    /\ next_entry = 1
    /\ log_last = NoDelivery

\* The innermost call of thread t.
Top(t) == threads[t][Len(threads[t])]

\* Thread t with its innermost call replaced by frame f.
SetTop(t, f) == [threads EXCEPT ![t][Len(threads[t])] = f]

\* A thread calls log(): lines 87-99 build the entry.
call_log(t) ==
    /\ threads[t] = <<>>
    /\ next_entry <= MaxLogs
    /\ threads' = [threads EXCEPT ![t] = <<Frame("log", "acquire", next_entry, "")>>]
    /\ next_entry' = next_entry + 1
    /\ log_last' = NoDelivery
    /\ UNCHANGED <<lock, subscribers, jsonl, inbox>>
    /\ UNCHANGED nonLog

\* A thread calls subscribe(cb) or unsubscribe(cb) (lines 52, 63).
call_subscription(t, op, cb) ==
    /\ threads[t] = <<>>
    /\ threads' = [threads EXCEPT ![t] = <<Frame(op, "acquire", 0, cb)>>]
    /\ log_last' = NoDelivery
    /\ UNCHANGED <<lock, subscribers, jsonl, inbox, next_entry>>
    /\ UNCHANGED nonLog

\* `with self._lock:` (lines 59, 64, 101): the call takes the lock.
acquire(t) ==
    /\ threads[t] # <<>>
    /\ Top(t).pc = "acquire"
    /\ CanAcquire(lock)
    /\ lock' = t
    /\ threads' = SetTop(t, [Top(t) EXCEPT !.pc = "locked"])
    /\ log_last' = NoDelivery
    /\ UNCHANGED <<subscribers, jsonl, inbox, next_entry>>
    /\ UNCHANGED nonLog

\* The body of subscribe / unsubscribe (lines 60-61, 65-66) and the release
\* of the lock.
subscription_body(t) ==
    /\ threads[t] # <<>>
    /\ Top(t).op \in {"subscribe", "unsubscribe"}
    /\ Top(t).pc = "locked"
    /\ subscribers' =
         IF Top(t).op = "subscribe"
         THEN IF Top(t).cb \in Range(subscribers)
              THEN subscribers
              ELSE Append(subscribers, Top(t).cb)
         ELSE Without(subscribers, {Top(t).cb})
    /\ lock' = Free
    /\ threads' = [threads EXCEPT ![t] = SubSeq(@, 1, Len(@) - 1)]
    /\ log_last' = NoDelivery
    /\ UNCHANGED <<jsonl, inbox, next_entry>>
    /\ UNCHANGED nonLog

\* log(): the line is appended to the file, or the file error is swallowed
\* (lines 102-109).
write_line(t) ==
    /\ threads[t] # <<>>
    /\ Top(t).op = "log"
    /\ Top(t).pc = "locked"
    /\ \E io \in {"ok", "fail"} :
         /\ jsonl' = IF io = "ok" THEN Append(jsonl, Top(t).entry) ELSE jsonl
         /\ threads' = SetTop(t, [Top(t) EXCEPT !.pc = "notify", !.idx = 1,
                                                !.written = (io = "ok")])
    /\ log_last' = NoDelivery
    /\ UNCHANGED <<lock, subscribers, inbox, next_entry>>
    /\ UNCHANGED nonLog

\* log(): one pass of `for cb in self._subscribers` (lines 113-117). The
\* callback is called with the entry and returns, raises, or itself calls
\* log(), subscribe() or unsubscribe() on the same LogManager.
notify(t) ==
    /\ threads[t] # <<>>
    /\ Top(t).op = "log"
    /\ Top(t).pc = "notify"
    /\ Top(t).idx <= Len(subscribers)
    /\ LET cb   == subscribers[Top(t).idx]
           next == [Top(t) EXCEPT !.idx = @ + 1]
       IN  /\ inbox' = [inbox EXCEPT ![cb] = Append(@, Top(t).entry)]
           /\ \E does \in Behaviours :
                CASE does = "returns" ->
                       /\ threads' = SetTop(t, next)
                       /\ UNCHANGED next_entry
                  [] does = "raises" ->
                       /\ threads' = SetTop(t, [next EXCEPT !.dead = Append(@, cb)])
                       /\ UNCHANGED next_entry
                  [] does = "log" ->
                       /\ next_entry <= MaxLogs
                       /\ threads' = [SetTop(t, next) EXCEPT
                                        ![t] = Append(@, Frame("log", "acquire",
                                                               next_entry, ""))]
                       /\ next_entry' = next_entry + 1
                  [] OTHER ->
                       /\ threads' = [SetTop(t, next) EXCEPT
                                        ![t] = Append(@, Frame(does, "acquire", 0, cb))]
                       /\ UNCHANGED next_entry
    /\ log_last' = NoDelivery
    /\ UNCHANGED <<lock, subscribers, jsonl>>
    /\ UNCHANGED nonLog

\* log(): after the loop the dead callbacks are removed (lines 118-120), the
\* lock is released and log() returns (lines 122-127).
finish_log(t) ==
    /\ threads[t] # <<>>
    /\ Top(t).op = "log"
    /\ Top(t).pc = "notify"
    /\ Top(t).idx > Len(subscribers)
    /\ subscribers' = Without(subscribers, Range(Top(t).dead))
    /\ lock' = Free
    /\ threads' = [threads EXCEPT ![t] = SubSeq(@, 1, Len(@) - 1)]
    /\ log_last' = [op |-> "log", thread |-> t, entry |-> Top(t).entry,
                    subs |-> subscribers, dead |-> Top(t).dead,
                    written |-> Top(t).written]
    /\ UNCHANGED <<jsonl, inbox, next_entry>>
    /\ UNCHANGED nonLog

(* ------------------------- daemon controller -------------------------- *)

\* _read_pid returned None: there is no PID file (lines 51-58).
NoFile == 0

\* Processes the controller may spawn in one run of the model.
MaxSpawn == 3

\* Failure of the PID file operations of one call: _write_pid (lines 60-65)
\* and _clear_pid (lines 67-72) swallow the exception.
PidIO == {"ok", "fail"}

\* What terminate / wait / kill do to the process in stop_daemon.
StopHow == {"exits", "survives", "terminate_raises"}

\* The controller's world: PID file, running processes, next PID.
SvcState(f, a, n) == [pid_file |-> f, alive |-> a, next_pid |-> n]

\* _clear_pid (lines 67-72)
ClearPid(st, io) == IF io = "ok" THEN [st EXCEPT !.pid_file = NoFile] ELSE st

\* _process_exists (lines 74-95)
ProcessExists(st, pid) == pid > 0 /\ pid \in st.alive

\* is_daemon_running (lines 100-120): the tuple returned and the state after.
IsDaemonRunning(st, io) ==
    LET pid == st.pid_file IN
    IF pid = NoFile
    THEN [ret |-> <<FALSE, "no pid file">>, st |-> st]
    ELSE IF ~ProcessExists(st, pid)
    THEN [ret |-> <<FALSE, "not running">>, st |-> ClearPid(st, io)]
    ELSE [ret |-> <<TRUE, "running">>, st |-> st]

\* start_daemon (lines 122-157): the tuple returned, the state after and the
\* PID of the process it spawned (NoFile if none).
StartDaemon(st, script, popen, io) ==
    IF ~script
    THEN [ret |-> <<FALSE, "no script">>, st |-> st, started |-> NoFile]
    ELSE
    LET r == IsDaemonRunning(st, io) IN
    IF r.ret[1]
    THEN [ret |-> <<TRUE, "already running">>, st |-> r.st, started |-> NoFile]
    ELSE IF ~popen
    THEN [ret |-> <<FALSE, "failed to start">>, st |-> r.st, started |-> NoFile]
    ELSE LET pid == r.st.next_pid
         IN  [ret |-> <<TRUE, "started">>,
              st |-> SvcState(IF io = "ok" THEN pid ELSE r.st.pid_file,
                              r.st.alive \cup {pid}, pid + 1),
              started |-> pid]

\* Mutant of StopDaemon: a process that survives is reported stopped and its
\* PID file removed.
StopDaemonAlwaysClears(st, how, io) ==
    LET pid == st.pid_file IN
    IF pid = NoFile
    THEN [ret |-> <<FALSE, "no pid file">>, st |-> st]
    ELSE IF ~ProcessExists(st, pid)
    THEN [ret |-> <<FALSE, "not running">>, st |-> ClearPid(st, io)]
    ELSE IF how = "terminate_raises"
    THEN [ret |-> <<FALSE, "terminate failed">>, st |-> st]
    ELSE LET after == IF how = "exits"
                      THEN [st EXCEPT !.alive = @ \ {pid}]
                      ELSE st
         IN  [ret |-> <<TRUE, "stopped">>, st |-> ClearPid(after, io)]

\* stop_daemon (lines 159-247): the tuple returned and the state after.
StopDaemon(st, how, io) ==
    LET pid == st.pid_file IN
    IF pid = NoFile
    THEN [ret |-> <<FALSE, "no pid file">>, st |-> st]
    ELSE IF ~ProcessExists(st, pid)
    THEN [ret |-> <<FALSE, "not running">>, st |-> ClearPid(st, io)]
    ELSE IF how = "terminate_raises"
    THEN [ret |-> <<FALSE, "terminate failed">>, st |-> st]
    ELSE LET after == IF how = "exits"
                      THEN [st EXCEPT !.alive = @ \ {pid}]
                      ELSE st
         IN  IF ProcessExists(after, pid)
             THEN [ret |-> <<FALSE, "did not exit">>, st |-> after]
             ELSE [ret |-> <<TRUE, "stopped">>, st |-> ClearPid(after, io)]

\* restart_daemon (lines 249-257): stop, then start; the result is start's.
RestartDaemon(st, how, script, popen, io) ==
    LET s == StopDaemon(st, how, io)
        t == StartDaemon(s.st, script, popen, io)
    IN  [ret |-> <<t.ret[1], "restart">>, st |-> t.st, started |-> t.started]

\* Python's truth value of a tuple: false only for the empty tuple.
Truthy(t) == t # <<>>

\* ServicePage._refresh_status (lines 168-181): `running = daemon_running()`
\* is the tuple is_daemon_running returns, and `if running:` tests the tuple.
RefreshStatus(st, io) ==
    LET r == IsDaemonRunning(st, io)
    IN  [ret |-> r.ret, st |-> r.st,
         label |-> IF Truthy(r.ret) THEN "RUNNING" ELSE "STOPPED"]

\* The record of a controller or page call.
SvcCall(op, ret, io, started) ==
    [op |-> op, ret |-> ret, io |-> io, started |-> started,
     pre |-> SvcState(pid_file, alive, next_pid)]

\* ServiceController.__init__ (lines 29-46) and the page before its first
\* refresh; no daemon has been started.
ServiceInit ==
    /\ pid_file = NoFile
    /\ alive = {}
    /\ next_pid = 1
    /\ lbl_status = ""
    /\ svc_last = [op |-> "__init__", ret |-> <<>>, io |-> "ok",
                   started |-> NoFile, pre |-> SvcState(NoFile, {}, 1)]

\* The state after a call.
SvcBecomes(st) ==
    /\ pid_file' = st.pid_file
    /\ alive' = st.alive
    /\ next_pid' = st.next_pid

is_daemon_running ==
    \E io \in PidIO :
        LET r == IsDaemonRunning(SvcState(pid_file, alive, next_pid), io)
        IN  /\ SvcBecomes(r.st)
            /\ svc_last' = SvcCall("is_daemon_running", r.ret, io, NoFile)
            /\ UNCHANGED lbl_status
            /\ UNCHANGED nonService

start_daemon ==
    \E io \in PidIO, script \in BOOLEAN, popen \in BOOLEAN :
        LET r == StartDaemon(SvcState(pid_file, alive, next_pid), script, popen, io)
        IN  /\ next_pid <= MaxSpawn
            /\ SvcBecomes(r.st)
            /\ svc_last' = SvcCall("start_daemon", r.ret, io, r.started)
            /\ UNCHANGED lbl_status
            /\ UNCHANGED nonService

stop_daemon ==
    \E io \in PidIO, how \in StopHow :
        LET r == StopDaemon(SvcState(pid_file, alive, next_pid), how, io)
        IN  /\ SvcBecomes(r.st)
            /\ svc_last' = SvcCall("stop_daemon", r.ret, io, NoFile)
            /\ UNCHANGED lbl_status
            /\ UNCHANGED nonService

restart_daemon ==
    \E io \in PidIO, how \in StopHow, script \in BOOLEAN, popen \in BOOLEAN :
        LET r == RestartDaemon(SvcState(pid_file, alive, next_pid), how, script,
                               popen, io)
        IN  /\ next_pid <= MaxSpawn
            /\ SvcBecomes(r.st)
            /\ svc_last' = SvcCall("restart_daemon", r.ret, io, r.started)
            /\ UNCHANGED lbl_status
            /\ UNCHANGED nonService

\* ServicePage._refresh_status (lines 168-181)
refresh_status ==
    \E io \in PidIO :
        LET r == RefreshStatus(SvcState(pid_file, alive, next_pid), io)
        IN  /\ SvcBecomes(r.st)
            /\ lbl_status' = r.label
            /\ svc_last' = SvcCall("refresh_status", r.ret, io, NoFile)
            /\ UNCHANGED nonService

\* ServicePage._on_clear_pid (lines 216-229): unlink the PID file if it is
\* there, then _refresh_status.
on_clear_pid ==
    /\ pid_file # NoFile
    /\ \E io \in PidIO :
        LET cleared == ClearPid(SvcState(pid_file, alive, next_pid), io)
            r       == RefreshStatus(cleared, io)
        IN  /\ SvcBecomes(r.st)
            /\ lbl_status' = r.label
            /\ svc_last' = SvcCall("on_clear_pid", r.ret, io, NoFile)
    /\ UNCHANGED nonService

\* Environment: a daemon process ends by itself.
daemon_exits ==
    /\ \E pid \in alive : alive' = alive \ {pid}
    /\ svc_last' = SvcCall("daemon_exits", <<>>, "ok", NoFile)
    /\ UNCHANGED <<pid_file, next_pid, lbl_status>>
    /\ UNCHANGED nonService

(* ------------------------------- daemon -------------------------------- *)

\* QrsDaemon._tracked_game_labels (lines 103-108), in the order of the loop.
Labels == <<"Fortnite", "Minecraft", "Valorant", "Call of Duty">>

\* PIDs a lookup can report for a running game.
Pids == {1, 2}

\* _get_game_pid returned None / the label is not a key of _seen_games.
NoPid == 0

\* Iterations of the while loop of run_forever the model follows.
MaxLoops == 2

\* No label has been handled yet.
NoPoll ==
    [label |-> "", prev |-> NoPid, pid |-> NoPid, detected |-> FALSE,
     exited |-> FALSE, tuned |-> FALSE]

\* Mutant of HandleLabel: the preset is applied the first time a label is seen
\* and not again for a later instance.
HandleLabelFirstOnly(label, prev, pid) ==
    IF pid = NoPid
    THEN [seen |-> NoPid, exited |-> prev # NoPid, detected |-> FALSE,
          tuned |-> FALSE]
    ELSE IF prev = pid
    THEN [seen |-> prev, exited |-> FALSE, detected |-> FALSE, tuned |-> FALSE]
    ELSE [seen |-> pid, exited |-> FALSE, detected |-> TRUE,
          tuned |-> (label = "Fortnite" /\ prev = NoPid)]

\* One pass of the for body of _handle_game_detection (lines 126-149) for a
\* label whose entry in _seen_games is prev and whose lookup returned pid:
\* the entry afterwards, whether the exit was logged (line 131), whether a new
\* instance was logged (line 142) and whether _apply_fortnite_autotune ran
\* (line 146).
HandleLabel(label, prev, pid) ==
    IF pid = NoPid
    THEN [seen |-> NoPid, exited |-> prev # NoPid, detected |-> FALSE,
          tuned |-> FALSE]
    ELSE IF prev = pid
    THEN [seen |-> prev, exited |-> FALSE, detected |-> FALSE, tuned |-> FALSE]
    ELSE [seen |-> pid, exited |-> FALSE, detected |-> TRUE,
          tuned |-> (label = "Fortnite")]

\* The vault is not in use.
VaultIdle ==
    /\ file = Absent
    /\ is_open = FALSE
    /\ key = None
    /\ entries = <<>>
    /\ header = None
    /\ last = CallFrom("__init__", "ok", Snapshot(Absent, FALSE, None, <<>>, None))
    /\ trip = NoTrip

\* QrsDaemon.__init__ (lines 73-75); run_forever has not been called.
DaemonInit ==
    /\ daemon_pc = "idle"
    /\ running = FALSE
    /\ loop_counter = 0
    /\ seen_games = [i \in 1..Len(Labels) |-> NoPid]
    /\ label_idx = 0
    /\ found = [i \in 1..Len(Labels) |-> NoPid]
    /\ stop_called = FALSE
    /\ begun_after = 0
    /\ poll_last = NoPoll

\* run_forever up to the while loop (lines 212-220).
run_forever ==
    /\ daemon_pc = "idle"
    /\ \E windows \in BOOLEAN :
         IF windows
         THEN running' = TRUE /\ daemon_pc' = "test"
         ELSE running' = running /\ daemon_pc' = "returned"
    /\ UNCHANGED <<loop_counter, seen_games, label_idx, found, stop_called,
                   begun_after, poll_last>>
    /\ UNCHANGED nonDaemon

\* The test of the while loop (line 223) and, when it passes, line 224.
loop_test ==
    /\ daemon_pc = "test"
    /\ IF running
       THEN /\ loop_counter < MaxLoops
            /\ loop_counter' = loop_counter + 1
            /\ daemon_pc' = "poll"
            /\ label_idx' = 1
            /\ found' = [i \in 1..Len(Labels) |-> NoPid]
            /\ begun_after' = IF stop_called THEN begun_after + 1 ELSE begun_after
       ELSE /\ daemon_pc' = "finally"
            /\ UNCHANGED <<loop_counter, label_idx, found, begun_after>>
    /\ UNCHANGED <<running, seen_games, stop_called, poll_last>>
    /\ UNCHANGED nonDaemon

\* _handle_game_detection, one label of the for loop (lines 125-149); the
\* lookup of line 126 returns pid.
handle_game_detection(pid) ==
    /\ daemon_pc = "poll"
    /\ LET label == Labels[label_idx]
           prev  == seen_games[label_idx]
           r     == HandleLabel(label, prev, pid)
       IN  /\ seen_games' = [seen_games EXCEPT ![label_idx] = r.seen]
           /\ found' = [found EXCEPT ![label_idx] = pid]
           /\ poll_last' = [label |-> label, prev |-> prev, pid |-> pid,
                            detected |-> r.detected, exited |-> r.exited,
                            tuned |-> r.tuned]
    /\ label_idx' = label_idx + 1
    /\ daemon_pc' = IF label_idx = Len(Labels) THEN "snapshot" ELSE "poll"
    /\ UNCHANGED <<running, loop_counter, stop_called, begun_after>>
    /\ UNCHANGED nonDaemon

\* The rest of the loop body: the periodic snapshot and the sleep (lines
\* 230-233).
snapshot_and_sleep ==
    /\ daemon_pc = "snapshot"
    /\ daemon_pc' = "test"
    /\ UNCHANGED <<running, loop_counter, seen_games, label_idx, found,
                   stop_called, begun_after, poll_last>>
    /\ UNCHANGED nonDaemon

\* KeyboardInterrupt or another exception inside the loop body (lines 234-237).
loop_interrupted ==
    /\ daemon_pc \in {"poll", "snapshot"}
    /\ daemon_pc' = "finally"
    /\ UNCHANGED <<running, loop_counter, seen_games, label_idx, found,
                   stop_called, begun_after, poll_last>>
    /\ UNCHANGED nonDaemon

\* The finally clause of run_forever (lines 238-240) and its return.
run_forever_finally ==
    /\ daemon_pc = "finally"
    /\ running' = FALSE
    /\ daemon_pc' = "returned"
    /\ UNCHANGED <<loop_counter, seen_games, label_idx, found, stop_called,
                   begun_after, poll_last>>
    /\ UNCHANGED nonDaemon

\* QrsDaemon.stop (lines 242-246), called from another thread at any time.
stop ==
    /\ running' = FALSE
    /\ stop_called' = TRUE
    /\ UNCHANGED <<daemon_pc, loop_counter, seen_games, label_idx, found,
                   begun_after, poll_last>>
    /\ UNCHANGED nonDaemon

InitDaemon == DaemonInit /\ VaultIdle /\ ServiceInit /\ LogInit

NextDaemon ==
    \/ run_forever
    \/ loop_test
    \/ \E pid \in Pids \cup {NoPid} : handle_game_detection(pid)
    \/ snapshot_and_sleep
    \/ loop_interrupted
    \/ run_forever_finally
    \/ stop

SpecDaemon == InitDaemon /\ [][NextDaemon]_<<vars, nonVault>>

InitService == ServiceInit /\ VaultIdle /\ DaemonInit /\ LogInit

NextService ==
    \/ is_daemon_running
    \/ start_daemon
    \/ stop_daemon
    \/ restart_daemon
    \/ refresh_status
    \/ on_clear_pid
    \/ daemon_exits

SpecService == InitService /\ [][NextService]_<<vars, nonVault>>

InitLog == LogInit /\ VaultIdle /\ DaemonInit /\ ServiceInit

NextLog ==
    \/ \E t \in Threads : call_log(t)
    \/ \E t \in Threads, op \in {"subscribe", "unsubscribe"}, cb \in Callbacks :
         call_subscription(t, op, cb)
    \/ \E t \in Threads : acquire(t)
    \/ \E t \in Threads : subscription_body(t)
    \/ \E t \in Threads : write_line(t)
    \/ \E t \in Threads : notify(t)
    \/ \E t \in Threads : finish_log(t)

SpecLog == InitLog /\ [][NextLog]_<<vars, nonVault>>

(* --------------------------- specification ---------------------------- *)

\* A container as an earlier run left it: entry list ents under password pw.
Stored(pw, ents) ==
    LET hdr == Header("s1", "n1")
    IN  Envelope(hdr, Encrypt(hdr, derive_key(pw, "s1"), json_dumps(ents)))

\* Containers with one envelope field missing or not base64.
Malformed ==
    { [Stored("p1", <<>>) EXCEPT ![f] = v] :
        f \in {"kdf_salt", "nonce", "ciphertext"}, v \in {Missing, BadPad} }

InitFiles ==
    {Absent, NotJson}
    \cup {Stored(pw, ents) : pw \in Passwords,
                             ents \in {<<>>, <<Entry("t1", "u", "x")>>}}
    \cup Malformed

Init ==
    /\ file \in InitFiles
    /\ is_open = FALSE
    /\ key = None
    /\ entries = <<>>
    /\ header = None
    /\ last = CallFrom("__init__", "ok", Snapshot(file, FALSE, None, <<>>, None))
    /\ trip = NoTrip
    /\ DaemonInit
    /\ ServiceInit
    /\ LogInit

Next ==
    \/ NewVault
    \/ \E password \in Passwords : unlock_or_create(password)
    \/ \E title \in Titles, username \in Usernames, password \in EntryPasswords :
         add_entry(title, username, password)
    \/ list_entries
    \/ \E title \in Titles \ {""}, username \in Usernames,
          password \in EntryPasswords :
         caller_append(title, username, password)
    \/ caller_remove
    \/ \E i \in 1..MaxEntries, title \in Titles \ {""} :
         caller_modify_entry(i, title)
    \/ save
    \/ export_csv
    \/ save_crash
    \/ Tamper
    \/ ExternalDelete

Spec == Init /\ [][Next]_vars

(* ------------------------- claim vocabulary --------------------------- *)

\* The container file and the Vault's fields now.
Now == Snapshot(file, is_open, key, entries, header)

\* The public operations of Vault.
VaultOps == {"unlock_or_create", "add_entry", "list_entries", "save", "export_csv"}

\* f is a well-formed envelope (all three base64 fields decode).
WellFormed(f) ==
    /\ f.kind = "envelope"
    /\ f.kdf_salt.kind = "b64"
    /\ f.nonce.kind = "b64"
    /\ f.ciphertext.kind = "b64"

\* f is a well-formed container made under password pw: its ciphertext was
\* encrypted with the key derived from pw and the stored salt, under the
\* stored nonce (whether or not the ciphertext has been altered since).
MadeUnder(f, pw) ==
    /\ WellFormed(f)
    /\ f.ciphertext.data.k = derive_key(pw, f.kdf_salt.data)
    /\ f.ciphertext.data.n = f.nonce.data

\* f is an unaltered container made under password pw.
EncryptedUnder(f, pw) == MadeUnder(f, pw) /\ f.ciphertext.data.dmg = "none"

\* The entry list stored in an unaltered, well-formed container.
StoredEntries(f) == json_loads(f.ciphertext.data.pt)

(* ------------------------------- claims ------------------------------- *)

\* C1: unlock_or_create(password) on a freshly constructed Vault whose path
\* does not exist (and with no I/O fault) returns created = true, leaves the
\* vault Unlocked with an empty entry list, and has written a container file
\* that holds the empty list under that password.
C1_CreateOnNewPathSucceeds ==
    ( /\ last.op = "unlock_or_create"
      /\ last.pre.file = Absent
      /\ Fresh(last.pre)
      /\ last.io = "ok" )
    => ( /\ last.out = "ok"
         /\ last.created
         /\ is_open
         /\ entries = <<>>
         /\ EncryptedUnder(file, last.pw)
         /\ StoredEntries(file) = <<>> )

\* C2: round trip. Following the script "unlock_or_create(P) on a fresh Vault
\* over a new path; add_entry for each item of L; save(); a fresh Vault over the
\* same path; unlock_or_create(P)", every call of the script returns normally
\* and at the end list_entries() equals L, in order.
C2_RoundTrip ==
    /\ ( /\ trip.phase \in {"created", "saved", "reopened"}
         /\ last.op \in {"unlock_or_create", "save"} )
       => last.out = "ok"
    /\ ( /\ trip.phase = "created"
         /\ last.op = "add_entry"
         /\ last.title # "" )
       => last.out = "ok"
    /\ trip.phase = "reopened" => ListResult(is_open, entries) = trip.L

\* C3: when the file is a container encrypted under a password P1 and a Locked
\* vault calls unlock_or_create(P2) with P2 # P1 (the file being readable), the
\* call raises VaultError, the vault is still Locked, and the container file is
\* unchanged.
C3_WrongPasswordRejected ==
    ( /\ last.op = "unlock_or_create"
      /\ ~last.pre.is_open
      /\ last.io = "ok"
      /\ \E p1 \in Passwords : p1 # last.pw /\ EncryptedUnder(last.pre.file, p1) )
    => ( /\ last.out = "VaultError"
         /\ ~is_open
         /\ file = last.pre.file )

\* C3, witness: a Locked vault has just been refused on an intact container of
\* another password.
C3_Witness ==
    /\ last.op = "unlock_or_create"
    /\ ~last.pre.is_open
    /\ last.io = "ok"
    /\ \E p1 \in Passwords : p1 # last.pw /\ EncryptedUnder(last.pre.file, p1)
    /\ last.out = "VaultError"

\* C4: no operation partially applies. Whenever unlock_or_create, add_entry,
\* save or export_csv raises, is_open, the derived key, the header, the entry
\* list and the container file are exactly what they were before the call.
C4_NoPartialApplication ==
    ( /\ last.op \in {"unlock_or_create", "add_entry", "save", "export_csv"}
      /\ last.out # "ok" )
    => Now = last.pre

\* C5: locked-state guard. On a freshly constructed, never-unlocked Vault,
\* add_entry, save and export_csv each raise VaultError, write nothing and
\* change nothing; list_entries returns the empty sequence without raising and
\* changes nothing.
C5_LockedGuard ==
    /\ ( /\ Fresh(last.pre)
         /\ last.op \in {"add_entry", "save", "export_csv"} )
       => ( /\ last.out = "VaultError"
            /\ last.csv = <<>>
            /\ Now = last.pre )
    /\ ( /\ Fresh(last.pre)
         /\ last.op = "list_entries" )
       => ( /\ last.out = "ok"
            /\ last.listed = <<>>
            /\ Now = last.pre )

\* C5, witness: add_entry with a non-empty title has just been refused on a
\* freshly constructed Vault.
C5_Witness ==
    /\ Fresh(last.pre)
    /\ last.op = "add_entry"
    /\ last.title # ""
    /\ last.out = "VaultError"

\* C6: every public operation, whatever the vault state, the content of the
\* container file and the I/O outcome, either returns or raises VaultError; no
\* other exception type leaves the call.
C6_OnlyVaultError ==
    last.op \in VaultOps => last.out \in {"ok", "VaultError"}

\* C7: save() is atomic with respect to a crash. If the process dies during
\* save(), the container file is either the complete previous content or the
\* complete new container.
C7_AtomicSave ==
    last.op = "save_crash"
    => \/ file = last.pre.file
       \/ file = Envelope(last.pre.header,
                          Encrypt(last.pre.header, last.pre.key,
                                  json_dumps(last.pre.entries)))

\* C8: no (key, nonce) pair encrypts twice. A save() that replaces a container
\* encrypts under a (key, nonce) pair different from the one the replaced
\* ciphertext was made with, and stores the nonce it used.
C8_FreshNoncePerSave ==
    ( /\ last.op = "save"
      /\ last.out = "ok"
      /\ WellFormed(last.pre.file) )
    => ( /\ file.nonce.data = file.ciphertext.data.n
         /\ ~ ( /\ file.ciphertext.data.k = last.pre.file.ciphertext.data.k
                /\ file.ciphertext.data.n = last.pre.file.ciphertext.data.n ) )

\* C9: corruption detection. If bytes of the stored ciphertext of a container
\* have been changed, unlock_or_create on a Locked vault, with the password
\* the container was made under (the file being readable), raises VaultError,
\* leaves the vault Locked and leaves the entry list as it was (empty on a
\* fresh vault): nothing read from the altered container reaches the list.
C9_CorruptionDetected ==
    ( /\ last.op = "unlock_or_create"
      /\ ~last.pre.is_open
      /\ last.io = "ok"
      /\ MadeUnder(last.pre.file, last.pw)
      /\ last.pre.file.ciphertext.data.dmg # "none" )
    => ( /\ last.out = "VaultError"
         /\ ~is_open
         /\ entries = last.pre.entries
         /\ file = last.pre.file )

\* C9, witness: a fresh vault has just been refused, with the right password,
\* on a container written by save() with two entries and altered afterwards.
C9_Witness ==
    /\ last.op = "unlock_or_create"
    /\ Fresh(last.pre)
    /\ last.io = "ok"
    /\ MadeUnder(last.pre.file, last.pw)
    /\ last.pre.file.ciphertext.data.dmg # "none"
    /\ Len(StoredEntries(last.pre.file)) >= 2
    /\ last.out = "VaultError"
    /\ entries = <<>>

\* C10: idempotent empty creation. The unlock_or_create call that finds no
\* file returns created = true; a call that finds a file never does; and a
\* call with the container's password on the existing, intact file returns
\* created = false and leaves the file, hence the stored entries, as they were.
C10_CreatedExactlyOnce ==
    /\ ( /\ last.op = "unlock_or_create"
         /\ last.pre.file = Absent
         /\ last.io = "ok" )
       => (last.out = "ok" /\ last.created)
    /\ ( /\ last.op = "unlock_or_create"
         /\ last.pre.file # Absent )
       => ~last.created
    /\ ( /\ last.op = "unlock_or_create"
         /\ last.io = "ok"
         /\ EncryptedUnder(last.pre.file, last.pw) )
       => ( /\ last.out = "ok"
            /\ ~last.created
            /\ file = last.pre.file
            /\ entries = StoredEntries(last.pre.file) )

\* C11: unlock_or_create on a vault that is already Unlocked (the file being
\* readable and writable) is either rejected with VaultError or a no-op: the
\* in-memory entry list, the derived key and the container file are unchanged,
\* whatever password is passed.
C11_ReunlockChangesNothing ==
    ( /\ last.op = "unlock_or_create"
      /\ last.pre.is_open
      /\ last.io = "ok" )
    => ( /\ last.out \in {"ok", "VaultError"}
         /\ entries = last.pre.entries
         /\ key = last.pre.key
         /\ file = last.pre.file )

\* C12: title required. On an Unlocked vault add_entry with an empty title
\* raises VaultError and leaves the entry list unchanged; with a non-empty
\* title it returns and the list is the previous list with exactly the entry
\* (title, username, password) appended at the end, duplicates included.
C12_TitleRequired ==
    /\ ( /\ last.op = "add_entry"
         /\ last.pre.is_open
         /\ last.title = "" )
       => ( /\ last.out = "VaultError"
            /\ entries = last.pre.entries )
    /\ ( /\ last.op = "add_entry"
         /\ last.pre.is_open
         /\ last.title # "" )
       => ( /\ last.out = "ok"
            /\ entries = Append(last.pre.entries,
                                Entry(last.title, last.username, last.password)) )

\* C12, witness: an Unlocked vault has just appended a second entry equal to
\* its first one.
C12_Witness ==
    /\ last.op = "add_entry"
    /\ last.pre.is_open
    /\ last.out = "ok"
    /\ Len(entries) = 2
    /\ entries[1] = entries[2]
    /\ last.pre.entries = <<entries[1]>>

\* C13: add_entry never persists. After any add_entry call, successful or
\* not, the container file is what it was before the call; and the only Vault
\* operations after which the file differs are save() and the unlock_or_create
\* that found no file.
C13_AddDoesNotPersist ==
    /\ last.op = "add_entry" => file = last.pre.file
    /\ ( /\ last.op \in VaultOps
         /\ file # last.pre.file )
       => \/ last.op = "save"
          \/ last.op = "unlock_or_create" /\ last.pre.file = Absent

\* C13, witness: an open vault has just appended an entry, and the intact
\* container on disk still holds the list without it.
C13_Witness ==
    /\ last.op = "add_entry"
    /\ last.out = "ok"
    /\ WellFormed(file)
    /\ file.ciphertext.data.dmg = "none"
    /\ StoredEntries(file) = last.pre.entries
    /\ entries # StoredEntries(file)

\* C14: CSV export. On an Unlocked vault holding N entries, export_csv (the
\* output file being writable) returns N and writes the header row
\* (Title, Username, Password) followed by N rows, row i carrying the title,
\* username and password of entry i; the entry list, the other fields of the
\* vault and the container file are unchanged.
C14_CsvExport ==
    ( /\ last.op = "export_csv"
      /\ last.pre.is_open
      /\ last.io = "ok" )
    => ( /\ last.out = "ok"
         /\ last.count = Len(last.pre.entries)
         /\ Len(last.csv) = last.count + 1
         /\ last.csv[1] = <<"Title", "Username", "Password">>
         /\ \A i \in 1..last.count :
              last.csv[i + 1] = << last.pre.entries[i].title,
                                   last.pre.entries[i].username,
                                   last.pre.entries[i].password >>
         /\ Now = last.pre )

\* C14, witness: an export of two different entries has just returned 2.
C14_Witness ==
    /\ last.op = "export_csv"
    /\ last.out = "ok"
    /\ last.count = 2
    /\ Len(entries) = 2
    /\ entries[1] # entries[2]

\* C15: list_entries returns a snapshot. The call itself changes nothing, and
\* nothing the caller then does to the returned value (appending to it,
\* removing from it, modifying one of the returned entries) changes the
\* vault's own entry list, hence what a later save() persists.
C15_ListIsSnapshot ==
    /\ last.op = "list_entries" => Now = last.pre
    /\ last.op \in {"caller_append", "caller_remove", "caller_modify_entry"}
       => ( /\ entries = last.pre.entries
            /\ json_dumps(entries) = json_dumps(last.pre.entries)
            /\ file = last.pre.file )

\* C16: in every reachable state a non-empty in-memory entry list implies
\* is_open = TRUE; an add_entry call that changed the entry list was made on
\* an Unlocked vault and leaves it Unlocked.
C16_EntriesOnlyWhileOpen ==
    /\ entries # <<>> => is_open
    /\ ( last.op = "add_entry" /\ entries # last.pre.entries )
       => ( last.pre.is_open /\ is_open )

C16_Witness ==
    /\ last.op = "add_entry"
    /\ last.out = "ok"
    /\ last.pre.entries = <<>>
    /\ Len(entries) = 1
    /\ is_open

\* C17: in every reachable state the derived key is held only while the vault
\* is Unlocked (is_open = FALSE implies no key), also after an
\* unlock_or_create that raised; and the container file holds no key field.
C17_KeyOnlyWhileOpen ==
    /\ ~is_open => key = None
    /\ file.kind = "envelope"
       => DOMAIN file = {"kind", "version", "kdf", "kdf_salt", "nonce", "cipher",
                          "ciphertext"}

\* C18: the salt of a container is immutable. No unlock_or_create, add_entry,
\* list_entries, save or export_csv call on an existing container changes the
\* kdf_salt stored in its file: a call without I/O fault leaves a container
\* file a container file, and whenever the file holds a kdf_salt after the
\* call it is the kdf_salt it held before. The salt an Unlocked vault would
\* write on its next save is the salt of the file it opened or created.
C18_SaltImmutable ==
    /\ ( last.op \in VaultOps /\ last.pre.file.kind = "envelope" )
       => ( /\ last.io = "ok" => file.kind = "envelope"
            /\ file.kind = "envelope" => file.kdf_salt = last.pre.file.kdf_salt )
    /\ ( is_open /\ WellFormed(file) )
       => b64encode(header.kdf_salt) = file.kdf_salt

C18_Witness ==
    /\ last.op = "save"
    /\ last.out = "ok"
    /\ last.pre.file.kind = "envelope"
    /\ file # last.pre.file
    /\ file.kdf_salt = last.pre.file.kdf_salt

\* C19: lock/unlock lifecycle. A Vault starts Locked; it becomes Unlocked only
\* by an unlock_or_create call that returns normally; and once is_open is
\* TRUE no operation of the vault (nor any use of a returned list) sets it
\* back to FALSE.
C19_Lifecycle ==
    /\ last.op = "__init__" => ~is_open
    /\ ( is_open /\ ~last.pre.is_open )
       => ( last.op = "unlock_or_create" /\ last.out = "ok" )
    /\ ( last.pre.is_open
         /\ last.op \in VaultOps
              \cup {"caller_append", "caller_remove", "caller_modify_entry"} )
       => is_open

C19_Witness ==
    /\ last.op = "unlock_or_create"
    /\ last.out = "ok"
    /\ ~last.pre.is_open
    /\ is_open

\* The call raised VaultError whose message is text, with or without the
\* full stop that ends every message of vault.py.
Reports(text) ==
    /\ last.out = "VaultError"
    /\ last.msg \in {text, text \o "."}

\* The guards of add_entry and save, lock check first.
GuardMessages ==
    /\ ( last.op = "add_entry" /\ ~last.pre.is_open )
       => Reports("Vault is locked")
    /\ ( last.op = "add_entry" /\ last.pre.is_open /\ last.title = "" )
       => Reports("Title required")
    /\ ( last.op = "save" /\ ~last.pre.is_open )
       => Reports("Vault not open")
    /\ ( last.op \in {"add_entry", "save", "export_csv"} /\ last.out = "VaultError" )
       => Now = last.pre

\* C20 as stated: each guard fails with its documented VaultError message,
\* the lock check first: add_entry on a Locked vault reports 'Vault is
\* locked' (even when the title is also empty), add_entry with an empty title
\* on an Unlocked vault reports 'Title required', save on a Locked vault
\* reports 'Vault not open', and export_csv on a Locked vault reports
\* 'Unlock first.'.
C20_GuardMessages ==
    /\ GuardMessages
    /\ ( last.op = "export_csv" /\ ~last.pre.is_open )
       => Reports("Unlock first.")

\* C20 amended: the same, except that export_csv on a Locked vault reports
\* 'Vault not open', the message save gives.
C20_GuardMessagesAmended ==
    /\ GuardMessages
    /\ ( last.op = "export_csv" /\ ~last.pre.is_open )
       => Reports("Vault not open")

C20_Witness ==
    /\ last.op = "add_entry"
    /\ ~last.pre.is_open
    /\ last.title = ""
    /\ last.out = "VaultError"
    /\ last.msg = "Vault is locked."

\* C21: the password that opens a container never changes. If the container
\* can be unlocked with password pw before an unlock_or_create (with any
\* password, succeeding or failing), add_entry or save call made without I/O
\* fault on a Vault instance over that path, a fresh Vault instance can still
\* unlock it with pw after the call.
C21_PasswordNeverChanges ==
    \A pw \in Passwords :
        ( /\ last.op \in {"unlock_or_create", "add_entry", "save"}
          /\ last.io = "ok"
          /\ EncryptedUnder(last.pre.file, pw) )
        => EncryptedUnder(file, pw)

\* C22: QrsDaemon.stop() stops the loop. Once stop() has been called, at any
\* point relative to run_forever() (before or after the loop has started),
\* run_forever begins no further iteration of its loop (it completes at most
\* the one in progress), and when it has returned _running is FALSE.
C22_StopStopsLoop ==
    /\ stop_called => begun_after = 0
    /\ daemon_pc = "returned" => ~running

OneTrackedDaemon(st) ==
    /\ \A p, q \in st.alive : p = q
    /\ st.alive # {} => st.pid_file \in st.alive

\* C24: start_daemon starts the daemon only if it is not already running.
\* Any start_daemon, stop_daemon, restart_daemon, is_daemon_running or
\* Force-Clear PID action made (without PID file I/O fault) in a state where at
\* most one spawned daemon is alive and the PID file holds its PID leaves such
\* a state.
C24_AtMostOneDaemon ==
    ( /\ svc_last.op \in {"start_daemon", "stop_daemon", "restart_daemon",
                          "is_daemon_running", "on_clear_pid"}
      /\ svc_last.io = "ok"
      /\ OneTrackedDaemon(svc_last.pre) )
    => OneTrackedDaemon(SvcState(pid_file, alive, next_pid))

C26_RestartReallyRestarts ==
    ( /\ svc_last.op = "restart_daemon"
      /\ svc_last.io = "ok"
      /\ svc_last.ret[1] )
    => ( /\ svc_last.started # NoFile
         /\ svc_last.started \in alive
         /\ pid_file = svc_last.started
         /\ svc_last.pre.pid_file \notin alive )

\* C27: after every _refresh_status the label reads RUNNING if and only if
\* the controller reported that the daemon process is running, and STOPPED
\* otherwise.
C27_LabelShowsStatus ==
    svc_last.op \in {"refresh_status", "on_clear_pid"}
    => ( /\ lbl_status = "RUNNING" <=> svc_last.ret[1]
         /\ lbl_status = "STOPPED" <=> ~svc_last.ret[1] )

\* How many times x occurs in seq.
Count(seq, x) == Cardinality({i \in 1..Len(seq) : seq[i] = x})

\* The entries that two duplicate-free sequences share come in the same order
\* in both.
SameOrder(a, b) ==
    \A i, j \in 1..Len(a), k, l \in 1..Len(b) :
        ( a[i] = b[k] /\ a[j] = b[l] /\ i < j ) => k < l

C29_LogNeverBlocksForever ==
    \A t \in Threads :
        ( threads[t] # <<>> /\ Top(t).pc = "acquire" ) => lock # t

====
